---- MODULE Spec2Model ----
(***************************************************************************)
(* PothuHole: the report store, the Leaderboard page, the Report page, the  *)
(* List page and the Map page, as state machines over the React component  *)
(* state.                                                                  *)
(*                                                                         *)
(* A JavaScript object is a record whose DOMAIN holds the fields that are  *)
(* present; an absent field reads as undefined.  A JavaScript number that  *)
(* a computation produces is a fraction [num, den]; NaN is 0/0.            *)
(***************************************************************************)
EXTENDS Integers, Sequences, FiniteSets, TLC

VARIABLES
  store,        \* the documents of the 'reports' collection, in creation order
  lbPc,         \* LeaderboardPage: "unmounted", "fetching", "done", "failed"
  lbReports,    \* LeaderboardPage: the local `reports` of the last fetch
  leaderboard,  \* LeaderboardPage state
  lbLoading,    \* LeaderboardPage state `loading`
  lbError,      \* LeaderboardPage state `error`
  stats,        \* LeaderboardPage state
  route,        \* the path the Router shows
  image,        \* ReportPage state: Null or the compressed file
  imageBase64,  \* ReportPage state: "" or a data URL
  preview,      \* ReportPage state: "" or an object URL
  dangerLevel,  \* ReportPage state
  description,  \* ReportPage state
  location,     \* ReportPage state {lat, lng, district, formattedAddress}
  isLoading,    \* ReportPage state
  error,        \* ReportPage state
  locationMethod, \* ReportPage state: "auto" or "manual"
  compressing,  \* ReportPage: the files imageCompression is working on
  reading,      \* ReportPage: the files a FileReader is loading
  geoPc,        \* ReportPage: "idle", "locating" (getCurrentPosition) or
                \* "geocoding" (the fetch of getDistrictName)
  lastGeocode,  \* ReportPage: how the last getDistrictName ended:
                \* "none", "resolved", "failed"
  addDocPending, \* ReportPage: the documents addDoc is writing
  listReports,  \* ListPage state `reports`
  filteredReports, \* ListPage state
  listLoading,  \* ListPage state `loading`
  listError,    \* ListPage state `error`
  searchTerm,   \* ListPage state
  sortBy,       \* ListPage state
  dangerFilter, \* ListPage state
  page,         \* ListPage state
  listPending,  \* ListPage: the getDocs calls awaited, each with the sortBy
                \* of its query and its number among the calls issued
  listIssued,   \* ListPage: how many times the fetch effect has run
  listLatestOk, \* ListPage: the fetch issued last has resolved
  listOutcome,  \* ListPage: how the getDocs that settled last ended:
                \* "none", "ok", "failed"
  mapPc,        \* MapPage: "unmounted", "fetching", "done", "failed"
  mapReports,   \* MapPage state `reports`
  mapLoading,   \* MapPage state `loading`
  mapError,     \* MapPage state `error`
  selectedReport, \* MapPage state: Null or a report
  query,        \* the query of the URL: Null, or [report |-> id] for ?report=<id>
  authPc        \* App: "init" (onAuthStateChanged has not called back),
                \* "signingIn" (signInAnonymously is awaited), "signedIn",
                \* "failed"

lbVars == <<lbPc, lbReports, leaderboard, lbLoading, lbError, stats>>
rpState == <<image, imageBase64, preview, dangerLevel, description, location,
             isLoading, error, locationMethod>>
rpAsync == <<compressing, reading, geoPc, lastGeocode, addDocPending>>
rpVars == <<route, rpState, rpAsync>>
listState == <<listReports, filteredReports, listLoading, listError, searchTerm,
               sortBy, dangerFilter, page>>
listAsync == <<listPending, listIssued, listLatestOk, listOutcome>>
listVars == <<listState, listAsync>>
mapVars == <<mapPc, mapReports, mapLoading, mapError, selectedReport>>
appVars == <<query, authPc>>
vars == <<store, lbVars, rpVars, listVars, mapVars, appVars>>

-----------------------------------------------------------------------------
(* Bounds                                                                  *)

MaxReports == 3
MaxDocs == 2
MaxFetches == 2
MaxListed == 21

-----------------------------------------------------------------------------
(* JavaScript values                                                       *)

NaN == [num |-> 0, den |-> 0]
Num(k) == [num |-> k, den |-> 1]
IsNaN(x) == x.den = 0

\* a + b on numbers
JSAdd(a, b) ==
  IF IsNaN(a) \/ IsNaN(b) THEN NaN
  ELSE [num |-> a.num * b.den + b.num * a.den, den |-> a.den * b.den]

\* a / b, b a count (b.num >= 0, b.den = 1); 0/0 is NaN
JSDiv(a, b) ==
  IF IsNaN(a) \/ IsNaN(b) \/ b.num = 0 THEN NaN
  ELSE [num |-> a.num * b.den, den |-> a.den * b.num]

\* the sign of a - b: -1, 0, 1, or NaN's "no order" (2)
JSSubSign(a, b) ==
  IF IsNaN(a) \/ IsNaN(b) THEN 2
  ELSE LET d == a.num * b.den - b.num * a.den
       IN  IF d < 0 THEN -1 ELSE IF d > 0 THEN 1 ELSE 0

\* a >= b on numbers: false when either is NaN
JSGeq(a, b) == JSSubSign(a, b) \in {0, 1}

\* report.dangerLevel as an operand of +: undefined converts to NaN
DangerOf(report) ==
  IF "dangerLevel" \in DOMAIN report THEN Num(report.dangerLevel) ELSE NaN

\* (x).toFixed(1): tenths, rounded half up; "NaN" for NaN.  Exact for the
\* fractions of the model: a tie x.y5 with den <= 4 is a multiple of 1/4.
ToFixed1(x) ==
  IF IsNaN(x) THEN NaN
  ELSE [num |-> (20 * x.num + x.den) \div (2 * x.den), den |-> 10]

-----------------------------------------------------------------------------
(* The documents a store can hold, as the Leaderboard reads them           *)

DistrictNames == {"", "Unknown District", "Kochi", "Palakkad"}
DangerLevels == {4, 8}

LbLocations == {[district |-> d] : d \in DistrictNames} \cup {[lat |-> 10]}

LbDocs ==
  {[dangerLevel |-> k, location |-> l] : k \in DangerLevels, l \in LbLocations}
    \cup {[location |-> l] : l \in LbLocations}

SeqsUpTo(S, n) == UNION {[1..k -> S] : k \in 0..n}

-----------------------------------------------------------------------------
(* LeaderboardPage.fetchLeaderboard                                        *)

\* DistrictKey with ?? in place of ||: only an absent district is replaced
DistrictKeyNullish(report) ==
  IF "district" \in DOMAIN report.location
    THEN report.location.district
    ELSE "Unknown District"

\* report.location.district || 'Unknown District'
DistrictKey(report) ==
  IF "district" \in DOMAIN report.location /\ report.location.district # ""
    THEN report.location.district
    ELSE "Unknown District"

\* the position of key k in the sequence of groups, 0 when absent
IndexOfKey(acc, k) ==
  IF \E i \in DOMAIN acc : acc[i].district = k
    THEN CHOOSE i \in DOMAIN acc : acc[i].district = k
    ELSE 0

RECURSIVE DistrictStats(_)

\* DistrictStats with `count = 1` in place of `count += 1`
DistrictStatsCountReset(reports) ==
  IF reports = <<>> THEN <<>>
  ELSE LET n == Len(reports)
           acc == DistrictStats(SubSeq(reports, 1, n - 1))
           report == reports[n]
           district == DistrictKey(report)
           i == IndexOfKey(acc, district)
       IN  IF i = 0
             THEN Append(acc, [district |-> district, count |-> 1,
                               totalDanger |-> JSAdd(Num(0), DangerOf(report))])
             ELSE [acc EXCEPT ![i] =
                     [district |-> district, count |-> 1,
                      totalDanger |-> JSAdd(acc[i].totalDanger, DangerOf(report))]]

\* reports.reduce(...): the groups in the order Object.keys lists them (first
\* appearance), each with its count and totalDanger
DistrictStats(reports) ==
  IF reports = <<>> THEN <<>>
  ELSE LET n == Len(reports)
           acc == DistrictStats(SubSeq(reports, 1, n - 1))
           report == reports[n]
           district == DistrictKey(report)
           i == IndexOfKey(acc, district)
       IN  IF i = 0
             THEN Append(acc, [district |-> district, count |-> 1,
                               totalDanger |-> JSAdd(Num(0), DangerOf(report))])
             ELSE [acc EXCEPT ![i] =
                     [district |-> district, count |-> acc[i].count + 1,
                      totalDanger |-> JSAdd(acc[i].totalDanger, DangerOf(report))]]

\* Object.keys(districtStats).map(...)
LeaderboardEntries(reports) ==
  LET ds == DistrictStats(reports)
  IN  [i \in DOMAIN ds |->
         [district |-> ds[i].district, count |-> ds[i].count,
          avgDanger |-> JSDiv(ds[i].totalDanger, Num(ds[i].count))]]

\* the comparator of .sort: its sign; a NaN result counts as +0
Compare(a, b) ==
  IF b.count # a.count
    THEN (IF b.count - a.count < 0 THEN -1 ELSE 1)
    ELSE LET s == JSSubSign(b.avgDanger, a.avgDanger)
         IN  IF s = 2 THEN 0 ELSE s

\* a consistent comparator orders the entries in a strict weak order
ConsistentComparator(entries) ==
  \A i, j, k \in DOMAIN entries :
    /\ (Compare(entries[i], entries[j]) = 0 /\ Compare(entries[j], entries[k]) = 0)
         => Compare(entries[i], entries[k]) = 0
    /\ (Compare(entries[i], entries[j]) < 0 /\ Compare(entries[j], entries[k]) < 0)
         => Compare(entries[i], entries[k]) < 0
    /\ (Compare(entries[i], entries[j]) = 0 /\ Compare(entries[j], entries[k]) < 0)
         => Compare(entries[i], entries[k]) < 0
    /\ (Compare(entries[i], entries[j]) < 0 /\ Compare(entries[j], entries[k]) = 0)
         => Compare(entries[i], entries[k]) < 0

Perms(n) == {p \in [1..n -> 1..n] : \A i, j \in 1..n : i # j => p[i] # p[j]}

\* Array.prototype.sort: stable under a consistent comparator; with an
\* inconsistent one the order is implementation-defined (some permutation)
SortResults(entries) ==
  LET n == Len(entries)
      Stable(p) == \A i, j \in 1..n : i < j =>
                     LET c == Compare(entries[p[i]], entries[p[j]])
                     IN  c < 0 \/ (c = 0 /\ p[i] < p[j])
      Pick == IF ConsistentComparator(entries)
                THEN {p \in Perms(n) : Stable(p)}
                ELSE Perms(n)
  IN  {[i \in 1..n |-> entries[p[i]]] : p \in Pick}

\* reports.reduce((sum, report) => sum + report.dangerLevel, 0)
RECURSIVE TotalDangerSum(_)
TotalDangerSum(reports) ==
  IF reports = <<>> THEN Num(0)
  ELSE JSAdd(TotalDangerSum(SubSeq(reports, 1, Len(reports) - 1)),
             DangerOf(reports[Len(reports)]))

\* totalReports > 0 ? (totalDangerSum / totalReports).toFixed(1) : 0
AvgDangerLevel(reports) ==
  IF Len(reports) > 0
    THEN ToFixed1(JSDiv(TotalDangerSum(reports), Num(Len(reports))))
    ELSE Num(0)

InitialStats == [totalReports |-> 0, totalDistricts |-> 0, avgDangerLevel |-> Num(0)]

LbInit ==
  /\ lbPc = "unmounted"
  /\ lbReports = <<>>
  /\ leaderboard = <<>>
  /\ lbLoading = TRUE
  /\ lbError = ""
  /\ stats = InitialStats

\* the mount effect: setLoading(true), then getDocs is awaited
LbMount ==
  /\ route = "/leaderboard"
  /\ lbPc = "unmounted"
  /\ lbPc' = "fetching"
  /\ lbLoading' = TRUE
  /\ UNCHANGED <<appVars, store, lbReports, leaderboard, lbError, stats, rpVars, listVars, mapVars>>

\* LbFetchEmpty without the early return and the `totalReports > 0` guard:
\* the empty result is summarised like any other
LbFetchEmptySummarised ==
  /\ lbPc = "fetching"
  /\ Len(store) = 0
  /\ lbPc' = "done"
  /\ lbReports' = store
  /\ leaderboard' = <<>>
  /\ stats' = [totalReports |-> 0, totalDistricts |-> 0,
               avgDangerLevel |-> ToFixed1(JSDiv(Num(0), Num(0)))]
  /\ lbError' = ""
  /\ lbLoading' = FALSE
  /\ UNCHANGED <<appVars, store, rpVars, listVars, mapVars>>

\* LbFetchEmpty without the finally: the early return leaves loading as it is
LbFetchEmptyNoFinally ==
  /\ lbPc = "fetching"
  /\ Len(store) = 0
  /\ lbPc' = "done"
  /\ lbReports' = store
  /\ lbLoading' = lbLoading
  /\ UNCHANGED <<appVars, store, leaderboard, lbError, stats, rpVars, listVars, mapVars>>

\* getDocs resolves with no document: the early return, then finally
LbFetchEmpty ==
  /\ lbPc = "fetching"
  /\ Len(store) = 0
  /\ lbPc' = "done"
  /\ lbReports' = store
  /\ lbLoading' = FALSE
  /\ UNCHANGED <<appVars, store, leaderboard, lbError, stats, rpVars, listVars, mapVars>>

\* getDocs resolves with documents: group, sort, set the state, then finally
LbFetchOk ==
  /\ lbPc = "fetching"
  /\ Len(store) > 0
  /\ \E sortedLeaderboard \in SortResults(LeaderboardEntries(store)) :
       /\ leaderboard' = sortedLeaderboard
       /\ stats' = [totalReports |-> Len(store),
                    totalDistricts |-> Len(sortedLeaderboard),
                    avgDangerLevel |-> AvgDangerLevel(store)]
  /\ lbError' = ""
  /\ lbReports' = store
  /\ lbLoading' = FALSE
  /\ lbPc' = "done"
  /\ UNCHANGED <<appVars, store, rpVars, listVars, mapVars>>

\* getDocs rejects: catch, then finally
LbFetchFail ==
  /\ lbPc = "fetching"
  /\ lbError' = "Failed to load leaderboard. Please try again."
  /\ lbLoading' = FALSE
  /\ lbPc' = "failed"
  /\ UNCHANGED <<appVars, store, lbReports, leaderboard, stats, rpVars, listVars, mapVars>>

-----------------------------------------------------------------------------
(* ReportPage                                                              *)

Null == [null |-> TRUE]

\* !v for a value that is null or a number
Falsy(v) == v = Null \/ IsNaN(v) \/ v.num = 0

Files == {"photo1", "photo2"}

\* imageCompression resolves with a new File
CompressedFile(f) == [name |-> f]

\* URL.createObjectURL(file)
ObjectURL == ("photo1" :> "blob:photo1") @@ ("photo2" :> "blob:photo2")

\* reader.result of readAsDataURL(file)
DataURL == ("photo1" :> "data:photo1") @@ ("photo2" :> "data:photo2")

SliderMin == 1
SliderMax == 10

\* SliderInputs of a Slider that lets the thumb go one step past its max
SliderInputsPastMax == {SliderMin, SliderMax + 1}

\* the values the user drags the Slider to
SliderInputs == {SliderMin, SliderMax}

DescriptionInputs == {"", "near the bus stop"}

\* what a type="number" field hands to onChange
ManualInputs == {"", "0", "10"}

\* parseFloat of the field's text
ParseFloat(value) == IF value = "10" THEN Num(10) ELSE Num(0)

\* position.coords of getCurrentPosition: a place whose longitude the manual
\* inputs do not name
GeoPositions == {[latitude |-> Num(10), longitude |-> Num(11)]}

\* the JSON bodies the reverse geocoder answers with
GeocoderReplies ==
  { [address |-> [suburb |-> "Kochi"], display_name |-> "Kochi, Kerala"],
    [address |-> [road |-> "NH 66"], display_name |-> "NH 66"],
    [error |-> "Unable to geocode"] }

\* obj.name, with undefined read as the (equally falsy) empty string
Field(obj, name) == IF name \in DOMAIN obj THEN obj[name] ELSE ""

\* a.suburb || a.city_district || a.county || a.city || 'Unknown Location'
DistrictOfAddress(a) ==
  IF Field(a, "suburb") # "" THEN a.suburb
  ELSE IF Field(a, "city_district") # "" THEN a.city_district
  ELSE IF Field(a, "county") # "" THEN a.county
  ELSE IF Field(a, "city") # "" THEN a.city
  ELSE "Unknown Location"

InitialLocation == [lat |-> Null, lng |-> Null, district |-> "", formattedAddress |-> ""]

RpInit ==
  /\ image = Null
  /\ imageBase64 = ""
  /\ preview = ""
  /\ dangerLevel = 5
  /\ description = ""
  /\ location = InitialLocation
  /\ isLoading = FALSE
  /\ error = ""
  /\ locationMethod = "auto"
  /\ compressing = {}
  /\ reading = {}
  /\ geoPc = "idle"
  /\ lastGeocode = "none"
  /\ addDocPending = <<>>

\* handleImageChange up to its await (the input is disabled while isLoading)
HandleImageChange ==
  /\ route = "/report"
  /\ ~isLoading
  /\ \E file \in Files : compressing' = compressing \cup {file}
  /\ isLoading' = TRUE
  /\ error' = ""
  /\ UNCHANGED <<appVars, store, lbVars, listVars, mapVars, route, image, imageBase64, preview, dangerLevel,
                 description, location, locationMethod, reading, geoPc,
                 lastGeocode, addDocPending>>

\* imageCompression resolves: the rest of the try block, then finally
CompressOk ==
  /\ route = "/report"
  /\ \E file \in compressing :
       /\ compressing' = compressing \ {file}
       /\ image' = CompressedFile(file)
       /\ preview' = ObjectURL[file]
       /\ reading' = reading \cup {file}
  /\ isLoading' = FALSE
  /\ UNCHANGED <<appVars, store, lbVars, listVars, mapVars, route, imageBase64, dangerLevel, description,
                 location, error, locationMethod, geoPc, lastGeocode, addDocPending>>

\* imageCompression rejects: catch, then finally
CompressFail ==
  /\ route = "/report"
  /\ \E file \in compressing : compressing' = compressing \ {file}
  /\ error' = "Failed to process image. Please try another one."
  /\ isLoading' = FALSE
  /\ UNCHANGED <<appVars, store, lbVars, listVars, mapVars, route, image, imageBase64, preview, dangerLevel,
                 description, location, locationMethod, reading, geoPc,
                 lastGeocode, addDocPending>>

\* reader.onloadend
ReaderLoadEnd ==
  /\ route = "/report"
  /\ \E file \in reading :
       /\ reading' = reading \ {file}
       /\ imageBase64' = DataURL[file]
  /\ UNCHANGED <<appVars, store, lbVars, listVars, mapVars, route, image, preview, dangerLevel, description,
                 location, isLoading, error, locationMethod, compressing, geoPc,
                 lastGeocode, addDocPending>>

\* the Remove button, shown with the preview
RemoveImage ==
  /\ route = "/report"
  /\ preview # ""
  /\ preview' = ""
  /\ image' = Null
  /\ imageBase64' = ""
  /\ UNCHANGED <<appVars, store, lbVars, listVars, mapVars, route, dangerLevel, description, location,
                 isLoading, error, locationMethod, rpAsync>>

\* the Location Method select
SetLocationMethod ==
  /\ route = "/report"
  /\ \E m \in {"auto", "manual"} : m # locationMethod /\ locationMethod' = m
  /\ UNCHANGED <<appVars, store, lbVars, listVars, mapVars, route, image, imageBase64, preview, dangerLevel,
                 description, location, isLoading, error, rpAsync>>

\* getCurrentLocation in a browser without navigator.geolocation
GetCurrentLocationUnsupported ==
  /\ route = "/report"
  /\ ~isLoading
  /\ error' = "Geolocation is not supported by your browser"
  /\ UNCHANGED <<appVars, store, lbVars, listVars, mapVars, route, image, imageBase64, preview, dangerLevel,
                 description, location, isLoading, locationMethod, rpAsync>>

\* getCurrentLocation up to the call of getCurrentPosition
GetCurrentLocation ==
  /\ route = "/report"
  /\ ~isLoading
  /\ isLoading' = TRUE
  /\ error' = ""
  /\ geoPc' = "locating"
  /\ UNCHANGED <<appVars, store, lbVars, listVars, mapVars, route, image, imageBase64, preview, dangerLevel,
                 description, location, locationMethod, compressing, reading,
                 lastGeocode, addDocPending>>

\* the success callback, up to the await inside getDistrictName
PositionOk ==
  /\ route = "/report"
  /\ geoPc = "locating"
  /\ \E position \in GeoPositions :
       location' = [location EXCEPT !.lat = position.latitude,
                                    !.lng = position.longitude]
  /\ isLoading' = TRUE
  /\ geoPc' = "geocoding"
  /\ UNCHANGED <<appVars, store, lbVars, listVars, mapVars, route, image, imageBase64, preview, dangerLevel,
                 description, error, locationMethod, compressing, reading,
                 lastGeocode, addDocPending>>

\* the error callback of getCurrentPosition
PositionError ==
  /\ route = "/report"
  /\ geoPc = "locating"
  /\ error' = "Unable to retrieve your location. Please enable location services or enter manually."
  /\ isLoading' = FALSE
  /\ geoPc' = "idle"
  /\ UNCHANGED <<appVars, store, lbVars, listVars, mapVars, route, image, imageBase64, preview, dangerLevel,
                 description, location, locationMethod, compressing, reading,
                 lastGeocode, addDocPending>>

\* getDistrictName: the fetch and response.json() resolve with `data`
GeocodeReply ==
  /\ route = "/report"
  /\ geoPc = "geocoding"
  /\ \E data \in GeocoderReplies :
       IF "address" \in DOMAIN data
         THEN /\ location' = [location EXCEPT
                                !.district = DistrictOfAddress(data.address),
                                !.formattedAddress = Field(data, "display_name")]
              /\ lastGeocode' = "resolved"
         ELSE /\ location' = [location EXCEPT !.district = "Unknown Location"]
              /\ lastGeocode' = "failed"
  /\ isLoading' = FALSE
  /\ geoPc' = "idle"
  /\ UNCHANGED <<appVars, store, lbVars, listVars, mapVars, route, image, imageBase64, preview, dangerLevel,
                 description, error, locationMethod, compressing, reading,
                 addDocPending>>

\* GeocodeThrow without the setLocation of the catch block
GeocodeThrowKeepsDistrict ==
  /\ route = "/report"
  /\ geoPc = "geocoding"
  /\ error' = "Could not fetch location details. Please check your connection."
  /\ lastGeocode' = "failed"
  /\ isLoading' = FALSE
  /\ geoPc' = "idle"
  /\ UNCHANGED <<appVars, store, lbVars, listVars, mapVars, route, image, imageBase64, preview,
                 dangerLevel, description, location, locationMethod, compressing,
                 reading, addDocPending>>

\* getDistrictName: the fetch or response.json() rejects
GeocodeThrow ==
  /\ route = "/report"
  /\ geoPc = "geocoding"
  /\ error' = "Could not fetch location details. Please check your connection."
  /\ location' = [location EXCEPT !.district = "Unknown Location"]
  /\ lastGeocode' = "failed"
  /\ isLoading' = FALSE
  /\ geoPc' = "idle"
  /\ UNCHANGED <<appVars, store, lbVars, listVars, mapVars, route, image, imageBase64, preview, dangerLevel,
                 description, locationMethod, compressing, reading, addDocPending>>

\* the Latitude and Longitude fields, shown in manual mode
HandleManualLocationChange ==
  /\ route = "/report"
  /\ locationMethod = "manual"
  /\ \E name \in {"lat", "lng"}, value \in ManualInputs :
       location' = [location EXCEPT
                      ![name] = IF value # "" THEN ParseFloat(value) ELSE Null]
  /\ UNCHANGED <<appVars, store, lbVars, listVars, mapVars, route, image, imageBase64, preview, dangerLevel,
                 description, isLoading, error, locationMethod, rpAsync>>

\* the Slider
SetDangerLevel ==
  /\ route = "/report"
  /\ \E newValue \in SliderInputs : dangerLevel' = newValue
  /\ UNCHANGED <<appVars, store, lbVars, listVars, mapVars, route, image, imageBase64, preview, description,
                 location, isLoading, error, locationMethod, rpAsync>>

\* the details field
SetDescription ==
  /\ route = "/report"
  /\ \E value \in DescriptionInputs : description' = value
  /\ UNCHANGED <<appVars, store, lbVars, listVars, mapVars, route, image, imageBase64, preview, dangerLevel,
                 location, isLoading, error, locationMethod, rpAsync>>

\* the Submit button's `disabled`
SubmitDisabled ==
  isLoading \/ image = Null \/ Falsy(location.lat) \/ Falsy(location.lng)

\* HandleSubmit without the `!imageBase64` check
HandleSubmitUnencoded ==
  /\ route = "/report"
  /\ ~SubmitDisabled
  /\ IF image = Null \/ Falsy(location.lat) \/ Falsy(location.lng)
       THEN /\ error' = "Please provide an image and set a location."
            /\ UNCHANGED <<isLoading, addDocPending>>
       ELSE /\ isLoading' = TRUE
            /\ error' = ""
            /\ addDocPending' = Append(addDocPending,
                 [imageBase64 |-> imageBase64,
                  dangerLevel |-> dangerLevel,
                  description |-> description,
                  location |-> [lat |-> location.lat,
                                lng |-> location.lng,
                                district |-> location.district,
                                formattedAddress |-> location.formattedAddress]])
  /\ UNCHANGED <<appVars, store, lbVars, listVars, mapVars, route, image, imageBase64, preview, dangerLevel,
                 description, location, locationMethod, compressing, reading,
                 geoPc, lastGeocode>>

\* HandleSubmit without setIsLoading(true): the Submit button stays enabled
\* while addDoc is awaited
HandleSubmitStaysEnabled ==
  /\ route = "/report"
  /\ ~SubmitDisabled
  /\ IF image = Null \/ Falsy(location.lat) \/ Falsy(location.lng)
       THEN /\ error' = "Please provide an image and set a location."
            /\ UNCHANGED <<isLoading, addDocPending>>
       ELSE IF imageBase64 = ""
         THEN /\ error' = "Image is still processing. Please wait a moment and try again."
              /\ UNCHANGED <<isLoading, addDocPending>>
         ELSE /\ isLoading' = isLoading
              /\ error' = ""
              /\ addDocPending' = Append(addDocPending,
                   [imageBase64 |-> imageBase64,
                    dangerLevel |-> dangerLevel,
                    description |-> description,
                    location |-> [lat |-> location.lat,
                                  lng |-> location.lng,
                                  district |-> location.district,
                                  formattedAddress |-> location.formattedAddress]])
  /\ UNCHANGED <<appVars, store, lbVars, listVars, mapVars, route, image, imageBase64, preview, dangerLevel,
                 description, location, locationMethod, compressing, reading,
                 geoPc, lastGeocode>>

\* handleSubmit up to its await
HandleSubmit ==
  /\ route = "/report"
  /\ ~SubmitDisabled
  /\ IF image = Null \/ Falsy(location.lat) \/ Falsy(location.lng)
       THEN /\ error' = "Please provide an image and set a location."
            /\ UNCHANGED <<isLoading, addDocPending>>
       ELSE IF imageBase64 = ""
         THEN /\ error' = "Image is still processing. Please wait a moment and try again."
              /\ UNCHANGED <<isLoading, addDocPending>>
         ELSE /\ isLoading' = TRUE
              /\ error' = ""
              /\ addDocPending' = Append(addDocPending,
                   [imageBase64 |-> imageBase64,
                    dangerLevel |-> dangerLevel,
                    description |-> description,
                    location |-> [lat |-> location.lat,
                                  lng |-> location.lng,
                                  district |-> location.district,
                                  formattedAddress |-> location.formattedAddress]])
  /\ UNCHANGED <<appVars, store, lbVars, listVars, mapVars, route, image, imageBase64, preview, dangerLevel,
                 description, location, locationMethod, compressing, reading,
                 geoPc, lastGeocode>>

\* the store's serverTimestamp(): later documents get later times
ServerTimestamp == Len(store) + 1

\* addDoc resolves: the document is in the collection and navigate('/')
\* replaces ReportPage by Home, which drops the component's state and makes
\* its pending callbacks (and the setIsLoading of finally) no-ops
AddDocOk ==
  /\ route = "/report"
  /\ addDocPending # <<>>
  /\ store' = Append(store,
       [f \in DOMAIN Head(addDocPending) \cup {"createdAt"} |->
          IF f = "createdAt" THEN ServerTimestamp ELSE Head(addDocPending)[f]])
  /\ route' = "/"
  /\ image' = Null
  /\ imageBase64' = ""
  /\ preview' = ""
  /\ dangerLevel' = 5
  /\ description' = ""
  /\ location' = InitialLocation
  /\ isLoading' = FALSE
  /\ error' = ""
  /\ locationMethod' = "auto"
  /\ compressing' = {}
  /\ reading' = {}
  /\ geoPc' = "idle"
  /\ addDocPending' = <<>>
  /\ UNCHANGED <<appVars, lbVars, listVars, mapVars, lastGeocode>>

\* addDoc rejects: catch, then finally
AddDocFail ==
  /\ route = "/report"
  /\ addDocPending # <<>>
  /\ addDocPending' = Tail(addDocPending)
  /\ error' = "Failed to save report. Please try again."
  /\ isLoading' = FALSE
  /\ UNCHANGED <<appVars, store, lbVars, listVars, mapVars, route, image, imageBase64, preview, dangerLevel,
                 description, location, locationMethod, compressing, reading,
                 geoPc, lastGeocode>>

-----------------------------------------------------------------------------
(* ListPage                                                                *)
(* A text is a sequence of characters, so that toLowerCase and includes    *)
(* are computed.                                                           *)

ITEMS_PER_PAGE == 10

\* the documents of the store, as the List reads them
ListDocs ==
  {[dangerLevel |-> k, createdAt |-> t, location |-> [district |-> <<"K", "o">>]] :
      k \in {2, 9}, t \in 1..2}
    \cup
  {[dangerLevel |-> k, createdAt |-> t, description |-> <<"o", "K">>,
    location |-> [district |-> <<"K", "o">>]] : k \in {2, 9}, t \in 1..2}

\* the documents of the store for the filtering effect: texts that differ in
\* case from the search terms, in each of the three fields searched, an absent
\* description, an empty formattedAddress, and danger levels on the edges of
\* the ranges of the Danger Level select
ListFilterDocs ==
  {[dangerLevel |-> k, createdAt |-> 1,
    location |-> [district |-> d, formattedAddress |-> a]] :
      k \in {3, 4, 8}, d \in {<<"K", "o">>, <<"a">>}, a \in {<<>>, <<"a", "k", "O">>}}
    \cup
  {[dangerLevel |-> k, createdAt |-> 1, description |-> <<"O", "k">>,
    location |-> [district |-> d, formattedAddress |-> a]] :
      k \in {3, 4, 8}, d \in {<<"K", "o">>, <<"a">>}, a \in {<<>>, <<"a", "k", "O">>}}

\* the documents of a store that fills several pages: document i was created
\* at time i, every second one is dangerous, every third one is elsewhere
ListedDoc(i) ==
  [dangerLevel |-> IF i % 2 = 1 THEN 9 ELSE 2, createdAt |-> i,
   location |-> [district |-> IF i % 3 = 0 THEN <<"a">> ELSE <<"K", "o">>]]

ListedStores == {[i \in 1..n |-> ListedDoc(i)] : n \in 0..MaxListed}

\* what the user types into the search field
SearchInputs == {<<>>, <<"K", "O">>, <<"o", "k">>}

\* String.prototype.toLowerCase
LowerChar(c) == IF c = "K" THEN "k" ELSE IF c = "O" THEN "o" ELSE c
ToLowerCase(text) == [i \in DOMAIN text |-> LowerChar(text[i])]

\* String.prototype.includes
Includes(text, term) ==
  \E i \in 1..(Len(text) - Len(term) + 1) :
    SubSeq(text, i, i + Len(term) - 1) = term

\* querySnapshot.docs.map(doc => ({ id: doc.id, ...doc.data() })): the id of a
\* document is its place in the collection
WithId(docs) ==
  [i \in DOMAIN docs |->
     [f \in DOMAIN docs[i] \cup {"id"} |-> IF f = "id" THEN i ELSE docs[i][f]]]

\* orderBy(...): a < 0 when a comes first.  `by` lists the fields with their
\* directions; the store breaks ties by document id in the last direction
RECURSIVE QueryCompare(_, _, _)
QueryCompare(a, b, by) ==
  IF Len(by) = 0 THEN 0
  ELSE LET f == by[1].field
           c == IF a[f] < b[f] THEN -1 ELSE IF a[f] > b[f] THEN 1 ELSE 0
           d == IF by[1].dir = "desc" THEN -c ELSE c
       IN  IF d # 0 \/ f = "id" THEN d
           ELSE IF Len(by) > 1 THEN QueryCompare(a, b, Tail(by))
           ELSE QueryCompare(a, b, <<[field |-> "id", dir |-> by[1].dir]>>)

\* getDocs(query(reportsCollection, orderBy...)): the documents that have the
\* ordered fields, in the order of the query
RunQuery(docs, by) ==
  LET all == WithId(docs)
      has == {i \in DOMAIN all : \A k \in DOMAIN by : by[k].field \in DOMAIN all[i]}
      n == Cardinality(has)
      \* the place of document i: one more than the documents that come first
      place(i) == 1 + Cardinality({j \in has : QueryCompare(all[j], all[i], by) < 0})
  IN  [k \in 1..n |-> all[CHOOSE i \in has : place(i) = k]]

\* the query fetchReports builds for a sortBy
QueryFor(sort) ==
  IF sort = "newest" THEN <<[field |-> "createdAt", dir |-> "desc"]>>
  ELSE IF sort = "oldest" THEN <<[field |-> "createdAt", dir |-> "asc"]>>
  ELSE IF sort = "mostDangerous"
    THEN <<[field |-> "dangerLevel", dir |-> "desc"],
           [field |-> "createdAt", dir |-> "desc"]>>
  ELSE <<[field |-> "createdAt", dir |-> "desc"]>>

SortOptions == {"newest", "oldest", "mostDangerous"}

\* the values of the Danger Level select and dangerFilter.split('-').map(Number)
DangerFilters == {"all", "8-10", "4-7", "1-3"}
FilterMin(f) == IF f = "8-10" THEN 8 ELSE IF f = "4-7" THEN 4 ELSE 1
FilterMax(f) == IF f = "8-10" THEN 10 ELSE IF f = "4-7" THEN 7 ELSE 3

\* value && value.toLowerCase().includes(lowercasedTerm)
FieldIncludes(obj, name, lowercasedTerm) ==
  /\ name \in DOMAIN obj
  /\ obj[name] # <<>>
  /\ Includes(ToLowerCase(obj[name]), lowercasedTerm)

\* MatchesSearch without lowercasing the search term
MatchesSearchTermAsTyped(report, term) ==
  \/ FieldIncludes(report, "description", term)
  \/ FieldIncludes(report.location, "district", term)
  \/ FieldIncludes(report.location, "formattedAddress", term)

\* the predicate of the search filter
MatchesSearch(report, term) ==
  LET lowercasedTerm == ToLowerCase(term)
  IN  \/ FieldIncludes(report, "description", lowercasedTerm)
      \/ FieldIncludes(report.location, "district", lowercasedTerm)
      \/ FieldIncludes(report.location, "formattedAddress", lowercasedTerm)

\* ProcessedReports with `< max` in place of `<= max`
ProcessedReportsBelowMax(reports, term, filter) ==
  LET KeepSearch(r) == MatchesSearch(r, term)
      KeepDanger(r) == r.dangerLevel >= FilterMin(filter) /\ r.dangerLevel < FilterMax(filter)
      searched == IF term # <<>> THEN SelectSeq(reports, KeepSearch) ELSE reports
  IN  IF filter # "all" THEN SelectSeq(searched, KeepDanger) ELSE searched

\* the filtering effect: what setFilteredReports receives (SelectSeq is
\* Array.prototype.filter)
ProcessedReports(reports, term, filter) ==
  LET KeepSearch(r) == MatchesSearch(r, term)
      KeepDanger(r) == r.dangerLevel >= FilterMin(filter) /\ r.dangerLevel <= FilterMax(filter)
      searched == IF term # <<>> THEN SelectSeq(reports, KeepSearch) ELSE reports
  IN  IF filter # "all" THEN SelectSeq(searched, KeepDanger) ELSE searched

ListInit ==
  /\ listReports = <<>>
  /\ filteredReports = <<>>
  /\ listLoading = TRUE
  /\ listError = ""
  /\ searchTerm = <<>>
  /\ sortBy = "newest"
  /\ dangerFilter = "all"
  /\ page = 1
  /\ listPending = {}
  /\ listIssued = 0
  /\ listLatestOk = FALSE
  /\ listOutcome = "none"

\* the fetch effect up to its await: setLoading(true) and the getDocs call
IssueFetch(sort) ==
  /\ listLoading' = TRUE
  /\ listPending' = listPending \cup {[seq |-> listIssued + 1, sortBy |-> sort]}
  /\ listIssued' = listIssued + 1
  /\ listLatestOk' = FALSE
  /\ listOutcome' = listOutcome

\* mount: the fetch effect and the filtering effect run for the first time
ListMount ==
  /\ route = "/list"
  /\ listIssued = 0
  /\ IssueFetch(sortBy)
  /\ filteredReports' = ProcessedReports(listReports, searchTerm, dangerFilter)
  /\ page' = 1
  /\ UNCHANGED <<appVars, store, lbVars, rpVars, mapVars, listReports, listError, searchTerm,
                 sortBy, dangerFilter>>

\* the Sort By select: setSortBy, and the fetch effect runs again
SetSortBy ==
  /\ listIssued > 0
  /\ listIssued < MaxFetches
  /\ \E value \in SortOptions :
       /\ value # sortBy
       /\ sortBy' = value
       /\ IssueFetch(value)
  /\ UNCHANGED <<appVars, store, lbVars, rpVars, mapVars, listReports, filteredReports, listError,
                 searchTerm, dangerFilter, page>>

\* a getDocs resolves: setReports, setError(''), finally; the new `reports`
\* runs the filtering effect
ListFetchOk ==
  /\ \E req \in listPending :
       /\ listPending' = listPending \ {req}
       /\ listReports' = RunQuery(store, QueryFor(req.sortBy))
       /\ listLatestOk' = (listLatestOk \/ req.seq = listIssued)
  /\ listError' = ""
  /\ listLoading' = FALSE
  /\ listOutcome' = "ok"
  /\ filteredReports' = ProcessedReports(listReports', searchTerm, dangerFilter)
  /\ page' = 1
  /\ UNCHANGED <<appVars, store, lbVars, rpVars, mapVars, searchTerm, sortBy, dangerFilter, listIssued>>

\* a getDocs rejects: catch, then finally
ListFetchFail ==
  /\ \E req \in listPending : listPending' = listPending \ {req}
  /\ listError' = "Failed to load reports. Check your internet connection or try again later."
  /\ listLoading' = FALSE
  /\ listOutcome' = "failed"
  /\ UNCHANGED <<appVars, store, lbVars, rpVars, mapVars, listReports, filteredReports, searchTerm,
                 sortBy, dangerFilter, page, listIssued, listLatestOk>>

\* the search field: setSearchTerm, and the filtering effect runs
SetSearchTerm ==
  /\ listIssued > 0
  /\ \E value \in SearchInputs :
       /\ value # searchTerm
       /\ searchTerm' = value
       /\ filteredReports' = ProcessedReports(listReports, value, dangerFilter)
  /\ page' = 1
  /\ UNCHANGED <<appVars, store, lbVars, rpVars, mapVars, listReports, listLoading, listError,
                 sortBy, dangerFilter, listAsync>>

\* SetDangerFilter with a filtering effect that does not call setPage(1)
SetDangerFilterKeepsPage ==
  /\ listIssued > 0
  /\ \E value \in DangerFilters :
       /\ value # dangerFilter
       /\ dangerFilter' = value
       /\ filteredReports' = ProcessedReports(listReports, searchTerm, value)
  /\ page' = page
  /\ UNCHANGED <<appVars, store, lbVars, rpVars, mapVars, listReports, listLoading, listError,
                 searchTerm, sortBy, listAsync>>

\* the Danger Level select: setDangerFilter, and the filtering effect runs
SetDangerFilter ==
  /\ listIssued > 0
  /\ \E value \in DangerFilters :
       /\ value # dangerFilter
       /\ dangerFilter' = value
       /\ filteredReports' = ProcessedReports(listReports, searchTerm, value)
  /\ page' = 1
  /\ UNCHANGED <<appVars, store, lbVars, rpVars, mapVars, listReports, listLoading, listError,
                 searchTerm, sortBy, listAsync>>

\* Math.ceil of a number
MathCeil(x) == -((-x.num) \div x.den)

\* Array.prototype.slice(begin, end) for 0 <= begin: the elements at the
\* 0-based positions begin .. end - 1 that exist
Slice(array, begin, end) ==
  LET from == IF begin > Len(array) THEN Len(array) ELSE begin
      to == IF end > Len(array) THEN Len(array) ELSE end
  IN  IF to > from THEN SubSeq(array, from + 1, to) ELSE <<>>

\* PageSlice with the element at position p * ITEMS_PER_PAGE included
PageSliceInclusiveEnd(p) ==
  Slice(filteredReports, (p - 1) * ITEMS_PER_PAGE, p * ITEMS_PER_PAGE + 1)

\* filteredReports.slice((page - 1) * ITEMS_PER_PAGE, page * ITEMS_PER_PAGE)
\* for a page number p
PageSlice(p) ==
  Slice(filteredReports, (p - 1) * ITEMS_PER_PAGE, p * ITEMS_PER_PAGE)

\* what the page renders
paginatedReports == PageSlice(page)

\* count with Math.floor in place of Math.ceil
countFloor == Len(filteredReports) \div ITEMS_PER_PAGE

\* count with a first page that is always there
countAtLeastOne ==
  IF Len(filteredReports) = 0 THEN 1
  ELSE MathCeil(JSDiv(Num(Len(filteredReports)), Num(ITEMS_PER_PAGE)))

\* Math.ceil(filteredReports.length / ITEMS_PER_PAGE)
count == MathCeil(JSDiv(Num(Len(filteredReports)), Num(ITEMS_PER_PAGE)))

\* the Pagination control, rendered when the list is shown and count > 1:
\* handlePageChange with one of the pages it offers
HandlePageChange ==
  /\ listIssued > 0
  /\ ~listLoading
  /\ listError = ""
  /\ Len(paginatedReports) # 0
  /\ count > 1
  /\ \E value \in 1..count : page' = value
  /\ UNCHANGED <<appVars, store, lbVars, rpVars, mapVars, listReports, filteredReports, listLoading,
                 listError, searchTerm, sortBy, dangerFilter, listAsync>>

-----------------------------------------------------------------------------
(* The classifications of a danger level                                   *)

\* getRandomQuote: the category the quote is drawn from
QuoteCategory(level) ==
  IF level <= 3 THEN "low" ELSE IF level <= 6 THEN "medium" ELSE "high"

\* dangerLevelToColor
dangerLevelToColor(level) ==
  IF level <= 3 THEN "#4caf50" ELSE IF level <= 7 THEN "#ff9800" ELSE "#f44336"

\* the FormHelperText under the Slider of ReportPage
HelperText(level) ==
  IF level <= 3 THEN "Minor - Small crack or shallow pothole"
  ELSE IF level > 3 /\ level <= 7
    THEN "Moderate - Noticeable pothole that could damage tires"
  ELSE "Severe - Large pothole that could cause accidents"

\* the ranges of the Danger Level select that hold a level
RangesOfLevel(level) ==
  {f \in DangerFilters \ {"all"} : level >= FilterMin(f) /\ level <= FilterMax(f)}

-----------------------------------------------------------------------------
(* MapPage                                                                 *)

MapInit ==
  /\ mapPc = "unmounted"
  /\ mapReports = <<>>
  /\ mapLoading = TRUE
  /\ mapError = ""
  /\ selectedReport = Null

\* mount: the effect runs fetchReports up to its await
MapMount ==
  /\ route = "/map"
  /\ mapPc = "unmounted"
  /\ mapPc' = "fetching"
  /\ mapLoading' = TRUE
  /\ UNCHANGED <<appVars, store, lbVars, rpVars, listVars, mapReports, mapError, selectedReport>>

\* getDocs resolves: setReports, setError(''), finally
MapFetchOk ==
  /\ mapPc = "fetching"
  /\ mapReports' = RunQuery(store, <<[field |-> "createdAt", dir |-> "desc"]>>)
  /\ mapError' = ""
  /\ mapLoading' = FALSE
  /\ mapPc' = "done"
  /\ UNCHANGED <<appVars, store, lbVars, rpVars, listVars, selectedReport>>

\* MapFetchFail with the fetch issued again from the catch
MapFetchFailRetrying ==
  /\ mapPc = "fetching"
  /\ mapError' = "Failed to load pothole reports. Please check your connection."
  /\ mapLoading' = TRUE
  /\ mapPc' = "fetching"
  /\ UNCHANGED <<appVars, store, lbVars, rpVars, listVars, mapReports, selectedReport>>

\* getDocs rejects: catch, then finally
MapFetchFail ==
  /\ mapPc = "fetching"
  /\ mapError' = "Failed to load pothole reports. Please check your connection."
  /\ mapLoading' = FALSE
  /\ mapPc' = "failed"
  /\ UNCHANGED <<appVars, store, lbVars, rpVars, listVars, mapReports, selectedReport>>

\* a click on a marker of the MapComponent, which is rendered when loading
\* is false and there are reports
HandleMarkerClick ==
  /\ mapPc \in {"done", "failed"}
  /\ ~mapLoading
  /\ Len(mapReports) # 0
  /\ \E i \in DOMAIN mapReports : selectedReport' = mapReports[i]
  /\ UNCHANGED <<appVars, store, lbVars, rpVars, listVars, mapPc, mapReports, mapLoading, mapError>>

-----------------------------------------------------------------------------
(* The Router                                                              *)

\* the paths of Home and of the three views of the reports
ViewRoutes == {"/", "/map", "/list", "/leaderboard"}

\* the documents of a store that every view can show
ViewDocs ==
  {[dangerLevel |-> k, createdAt |-> 1, location |-> [lat |-> 10, lng |-> 10]] :
     k \in {2, 9}}

\* the Router shows another path (a link of Home, the address bar): the page
\* shown is unmounted, its state is dropped and what it awaits no longer
\* reaches a component
Navigate ==
  /\ route \in ViewRoutes
  /\ \E to \in ViewRoutes \ {route} : route' = to
  /\ lbPc' = "unmounted"
  /\ lbReports' = <<>>
  /\ leaderboard' = <<>>
  /\ lbLoading' = TRUE
  /\ lbError' = ""
  /\ stats' = InitialStats
  /\ listReports' = <<>>
  /\ filteredReports' = <<>>
  /\ listLoading' = TRUE
  /\ listError' = ""
  /\ searchTerm' = <<>>
  /\ sortBy' = "newest"
  /\ dangerFilter' = "all"
  /\ page' = 1
  /\ listPending' = {}
  /\ listIssued' = 0
  /\ listLatestOk' = FALSE
  /\ listOutcome' = "none"
  /\ mapPc' = "unmounted"
  /\ mapReports' = <<>>
  /\ mapLoading' = TRUE
  /\ mapError' = ""
  /\ selectedReport' = Null
  /\ query' = Null
  /\ UNCHANGED <<store, rpState, rpAsync, authPc>>

\* the three views as they are after an unmount: the state of a component is
\* dropped with it and the callbacks of its pending getDocs are no-ops
ViewsUnmounted ==
  /\ lbPc' = "unmounted"
  /\ lbReports' = <<>>
  /\ leaderboard' = <<>>
  /\ lbLoading' = TRUE
  /\ lbError' = ""
  /\ stats' = InitialStats
  /\ listReports' = <<>>
  /\ filteredReports' = <<>>
  /\ listLoading' = TRUE
  /\ listError' = ""
  /\ searchTerm' = <<>>
  /\ sortBy' = "newest"
  /\ dangerFilter' = "all"
  /\ page' = 1
  /\ listPending' = {}
  /\ listIssued' = 0
  /\ listLatestOk' = FALSE
  /\ listOutcome' = "none"
  /\ mapPc' = "unmounted"
  /\ mapReports' = <<>>
  /\ mapLoading' = TRUE
  /\ mapError' = ""
  /\ selectedReport' = Null

\* ListPage: a click on a card or on its 'View on Map' button, both
\* navigate(`/map?report=${report.id}`); the cards are rendered when loading
\* is false, error is empty and the page has reports
ViewOnMap ==
  /\ route = "/list"
  /\ ~listLoading
  /\ listError = ""
  /\ Len(paginatedReports) # 0
  /\ \E i \in DOMAIN paginatedReports :
       query' = [report |-> paginatedReports[i].id]
  /\ route' = "/map"
  /\ ViewsUnmounted
  /\ UNCHANGED <<store, rpState, rpAsync, authPc>>

\* the link handleShare hands out, `${origin}/map?report=${report.id}`, is
\* opened: the application is loaded at that URL
OpenSharedLink ==
  /\ route \in ViewRoutes
  /\ \E id \in DOMAIN store : query' = [report |-> id]
  /\ route' = "/map"
  /\ ViewsUnmounted
  /\ authPc' = "init"
  /\ UNCHANGED <<store, rpState, rpAsync>>

-----------------------------------------------------------------------------
(* App: the anonymous sign-in                                              *)

AppInit ==
  /\ query = Null
  /\ authPc = "init"

\* onAuthStateChanged calls back with the user of an earlier session
AuthStateUser ==
  /\ authPc = "init"
  /\ authPc' = "signedIn"
  /\ UNCHANGED <<store, lbVars, rpVars, listVars, mapVars, query>>

\* onAuthStateChanged calls back with no user: signInAnonymously is called
AuthStateNoUser ==
  /\ authPc = "init"
  /\ authPc' = "signingIn"
  /\ UNCHANGED <<store, lbVars, rpVars, listVars, mapVars, query>>

\* signInAnonymously resolves, and onAuthStateChanged calls back with the user
SignInOk ==
  /\ authPc = "signingIn"
  /\ authPc' = "signedIn"
  /\ UNCHANGED <<store, lbVars, rpVars, listVars, mapVars, query>>

\* signInAnonymously rejects: the catch logs the error
SignInFail ==
  /\ authPc = "signingIn"
  /\ authPc' = "failed"
  /\ UNCHANGED <<store, lbVars, rpVars, listVars, mapVars, query>>

-----------------------------------------------------------------------------
(* Specifications                                                          *)

LbNext == LbMount \/ LbFetchEmpty \/ LbFetchOk \/ LbFetchFail

InitLeaderboard ==
  /\ store \in SeqsUpTo(LbDocs, MaxReports)
  /\ LbInit
  /\ route = "/leaderboard"
  /\ RpInit
  /\ ListInit
  /\ MapInit
  /\ AppInit

SpecLeaderboard == InitLeaderboard /\ [][LbNext]_vars

RpNext ==
  \/ HandleImageChange \/ CompressOk \/ CompressFail \/ ReaderLoadEnd
  \/ RemoveImage \/ SetLocationMethod \/ GetCurrentLocationUnsupported
  \/ GetCurrentLocation \/ PositionOk \/ PositionError \/ GeocodeReply
  \/ GeocodeThrow \/ HandleManualLocationChange \/ SetDangerLevel
  \/ SetDescription \/ HandleSubmit \/ AddDocOk \/ AddDocFail

InitReport ==
  /\ store = <<>>
  /\ LbInit
  /\ route = "/report"
  /\ RpInit
  /\ ListInit
  /\ MapInit
  /\ AppInit

SpecReport == InitReport /\ [][RpNext]_vars

ListNext ==
  \/ ListMount \/ SetSortBy \/ ListFetchOk \/ ListFetchFail
  \/ SetSearchTerm \/ SetDangerFilter

InitList ==
  /\ store \in SeqsUpTo(ListDocs, MaxDocs)
  /\ LbInit
  /\ route = "/list"
  /\ RpInit
  /\ ListInit
  /\ MapInit
  /\ AppInit

SpecList == InitList /\ [][ListNext]_vars

\* ListPage under its initial sortBy, over documents with varied texts
ListFilterNext ==
  \/ ListMount \/ ListFetchOk \/ ListFetchFail \/ SetSearchTerm \/ SetDangerFilter

InitListFilter ==
  /\ store \in SeqsUpTo(ListFilterDocs, MaxDocs)
  /\ LbInit
  /\ route = "/list"
  /\ RpInit
  /\ ListInit
  /\ MapInit
  /\ AppInit

SpecListFilter == InitListFilter /\ [][ListFilterNext]_vars

\* ListPage over stores that fill more than one page
ListPagedNext == ListNext \/ HandlePageChange

InitListPaged ==
  /\ store \in ListedStores
  /\ LbInit
  /\ route = "/list"
  /\ RpInit
  /\ ListInit
  /\ MapInit
  /\ AppInit

SpecListPaged == InitListPaged /\ [][ListPagedNext]_vars

\* the three views of the reports behind the Router, one mounted at a time
MapNext == MapMount \/ MapFetchOk \/ MapFetchFail \/ HandleMarkerClick

ViewsNext == Navigate \/ LbNext \/ ListNext \/ MapNext

InitViews ==
  /\ store \in SeqsUpTo(ViewDocs, MaxDocs)
  /\ LbInit
  /\ route = "/"
  /\ RpInit
  /\ ListInit
  /\ MapInit
  /\ AppInit

SpecViews == InitViews /\ [][ViewsNext]_vars

\* a getDocs that is awaited settles: it resolves or it rejects
SpecViewsFair ==
  /\ SpecViews
  /\ WF_vars(LbFetchFail \/ LbFetchEmpty \/ LbFetchOk)
  /\ WF_vars(ListFetchFail \/ ListFetchOk)
  /\ WF_vars(MapFetchFail \/ MapFetchOk)

\* the application: the sign-in of App, the three views and the links to
\* /map?report=<id>
AuthNext == AuthStateUser \/ AuthStateNoUser \/ SignInOk \/ SignInFail

AppNext == ViewsNext \/ ViewOnMap \/ OpenSharedLink \/ AuthNext

InitApp ==
  /\ store \in SeqsUpTo(ViewDocs, MaxDocs)
  /\ LbInit
  /\ route = "/"
  /\ RpInit
  /\ ListInit
  /\ MapInit
  /\ AppInit

SpecApp == InitApp /\ [][AppNext]_vars

-----------------------------------------------------------------------------
(* Claims about LeaderboardPage, under SpecLeaderboard                     *)

\* the fetch has resolved with at least one report and the state is set
LbSummarised == lbPc = "done" /\ lbReports # <<>>

\* the district a report names, "" when it names none
NamedDistrict(report) ==
  IF "district" \in DOMAIN report.location THEN report.location.district ELSE ""

\* two reports belong to the same group
SameGroup(r1, r2) ==
  \/ NamedDistrict(r1) = NamedDistrict(r2)
  \/ /\ NamedDistrict(r1) \in {"", "Unknown District"}
     /\ NamedDistrict(r2) \in {"", "Unknown District"}

RECURSIVE SumOfCounts(_)
SumOfCounts(entries) ==
  IF entries = <<>> THEN 0
  ELSE entries[1].count + SumOfCounts(Tail(entries))

\* C1: for a non-empty sequence of fetched reports the leaderboard entries
\* partition the reports: there is a way to give every report exactly one
\* entry so that reports share an entry exactly when they are of the same
\* district and every entry gets exactly `count` reports; every count is at
\* least 1 and the counts add up to the number of reports.
C1_GroupsPartitionReports ==
  LbSummarised =>
    /\ \A i \in DOMAIN leaderboard : leaderboard[i].count >= 1
    /\ SumOfCounts(leaderboard) = Len(lbReports)
    /\ \E g \in [DOMAIN lbReports -> DOMAIN leaderboard] :
         /\ \A r1, r2 \in DOMAIN lbReports :
              (g[r1] = g[r2]) <=> SameGroup(lbReports[r1], lbReports[r2])
         /\ \A i \in DOMAIN leaderboard :
              Cardinality({r \in DOMAIN lbReports : g[r] = i}) = leaderboard[i].count

\* C1 witness: three reports in two groups, one of them of two reports
C1_Witness ==
  /\ LbSummarised
  /\ Len(lbReports) = 3
  /\ Len(leaderboard) = 2
  /\ leaderboard[1].count = 2

\* C2: in the leaderboard, for positions i < j, count[i] > count[j], or
\* the counts are equal and avgDanger[i] >= avgDanger[j].
C2_LeaderboardOrdered ==
  LbSummarised =>
    \A i, j \in DOMAIN leaderboard : i < j =>
      \/ leaderboard[i].count > leaderboard[j].count
      \/ /\ leaderboard[i].count = leaderboard[j].count
         /\ JSGeq(leaderboard[i].avgDanger, leaderboard[j].avgDanger)

\* the danger sum of the reports of a district, a missing dangerLevel as 0
RECURSIVE DangerSumZeroed(_, _)
DangerSumZeroed(reports, district) ==
  IF reports = <<>> THEN 0
  ELSE (IF (district = "*" \/ SameGroup(reports[1], [location |-> [district |-> district]]))
              /\ "dangerLevel" \in DOMAIN reports[1]
          THEN reports[1].dangerLevel ELSE 0)
       + DangerSumZeroed(Tail(reports), district)

\* C5: a report with a missing dangerLevel is tolerated: no error state is
\* entered, every avgDanger and avgDangerLevel is a number, and the report
\* adds 0 to the danger sum of its district and to the global one.
C5_MissingDangerTolerated ==
  LbSummarised =>
    /\ lbError = ""
    /\ ~IsNaN(stats.avgDangerLevel)
    /\ stats.avgDangerLevel =
         ToFixed1([num |-> DangerSumZeroed(lbReports, "*"), den |-> Len(lbReports)])
    /\ \A i \in DOMAIN leaderboard :
         /\ ~IsNaN(leaderboard[i].avgDanger)
         /\ leaderboard[i].avgDanger.num * leaderboard[i].count
              = DangerSumZeroed(lbReports, leaderboard[i].district)
                  * leaderboard[i].avgDanger.den

\* C9: when the store returns no reports the page ends with an empty
\* leaderboard, totalReports = 0, totalDistricts = 0, avgDangerLevel = 0,
\* loading = false and no error message.
C9_EmptyStore ==
  (lbPc = "done" /\ Len(store) = 0) =>
    /\ leaderboard = <<>>
    /\ stats.totalReports = 0
    /\ stats.totalDistricts = 0
    /\ stats.avgDangerLevel = Num(0)
    /\ lbLoading = FALSE
    /\ lbError = ""

\* C9 witness: the fetch has resolved with no document
C9_Witness == lbPc = "done" /\ store = <<>> /\ lbReports = <<>>

\* C10: the groups are the values of location.district; the reports whose
\* district is empty or absent are counted in the group 'Unknown District',
\* and no group has an empty name.
C10_UnknownDistrictGroup ==
  LbSummarised =>
    /\ \A i \in DOMAIN leaderboard :
         /\ leaderboard[i].district # ""
         /\ leaderboard[i].count =
              Cardinality({r \in DOMAIN lbReports :
                 \/ NamedDistrict(lbReports[r]) = leaderboard[i].district
                 \/ /\ leaderboard[i].district = "Unknown District"
                    /\ NamedDistrict(lbReports[r]) = ""})
    /\ \A r \in DOMAIN lbReports :
         \E i \in DOMAIN leaderboard :
           leaderboard[i].district =
             (IF NamedDistrict(lbReports[r]) = "" THEN "Unknown District"
                                                 ELSE NamedDistrict(lbReports[r]))

\* C10 witness: a report with an empty district, one with none and one named
\* 'Unknown District' make one group of three
C10_Witness ==
  /\ LbSummarised
  /\ \E a, b, c \in DOMAIN lbReports :
       /\ "district" \notin DOMAIN lbReports[a].location
       /\ "district" \in DOMAIN lbReports[b].location
       /\ lbReports[b].location.district = ""
       /\ "district" \in DOMAIN lbReports[c].location
       /\ lbReports[c].location.district = "Unknown District"
  /\ Len(leaderboard) = 1
  /\ leaderboard[1].count = 3

\* the group a report is counted in
GroupOf(report) ==
  IF NamedDistrict(report) = "" THEN "Unknown District" ELSE NamedDistrict(report)

\* C11: for every leaderboard entry, count is the number of reports of that
\* district and avgDanger is the sum of dangerLevel over the reports of that
\* district divided by count, unrounded: count * avgDanger equals the
\* district's danger sum.
C11_EntryCountAndAverage ==
  LbSummarised =>
    \A i \in DOMAIN leaderboard :
      /\ leaderboard[i].count =
           Cardinality({r \in DOMAIN lbReports :
                          GroupOf(lbReports[r]) = leaderboard[i].district})
      /\ leaderboard[i].avgDanger.den # 0
      /\ leaderboard[i].count * leaderboard[i].avgDanger.num
           = DangerSumZeroed(lbReports, leaderboard[i].district)
               * leaderboard[i].avgDanger.den

\* C12: for a non-empty sequence of reports, totalReports is the number of
\* reports, totalDistricts is the number of distinct district groups and the
\* length of the leaderboard, and avgDangerLevel is the sum of all dangerLevel
\* divided by totalReports, rounded to one decimal place (a number of tenths
\* at most half a tenth away from the quotient).
C12_StatsOfReports ==
  LbSummarised =>
    /\ stats.totalReports = Len(lbReports)
    /\ stats.totalDistricts = Len(leaderboard)
    /\ stats.totalDistricts =
         Cardinality({GroupOf(lbReports[r]) : r \in DOMAIN lbReports})
    /\ stats.avgDangerLevel.den = 10
    /\ LET tenths == stats.avgDangerLevel.num
           sum == DangerSumZeroed(lbReports, "*")
           n == Len(lbReports)
       IN  /\ 2 * (tenths * n - 10 * sum) <= n
           /\ 2 * (10 * sum - tenths * n) <= n

-----------------------------------------------------------------------------
(* Claims about ListPage, under SpecList                                   *)

\* a list is in the order a sortBy asks for
OrderedFor(reports, sort) ==
  \A i, j \in DOMAIN reports : i < j =>
    IF sort = "newest" THEN reports[i].createdAt >= reports[j].createdAt
    ELSE IF sort = "oldest" THEN reports[i].createdAt <= reports[j].createdAt
    ELSE \/ reports[i].dangerLevel > reports[j].dangerLevel
         \/ /\ reports[i].dangerLevel = reports[j].dangerLevel
            /\ reports[i].createdAt >= reports[j].createdAt

\* C3: once the fetch issued for the latest sortBy selection has resolved,
\* the reports held by ListPage are in the order of the selected sortBy:
\* newest = descending createdAt, oldest = ascending createdAt,
\* mostDangerous = descending dangerLevel, ties by descending createdAt.
C3_ListOrderedBySortBy == listLatestOk => OrderedFor(listReports, sortBy)

\* C4: no fetch is superseded: a view never has two fetches in flight.
C4_NoFetchSuperseded == Cardinality(listPending) <= 1

-----------------------------------------------------------------------------
(* Claims about the filtering effect of ListPage, under SpecListFilter     *)

\* two characters are the same letter, whatever their case
SameLetter(a, b) == a = b \/ {a, b} = {"K", "k"} \/ {a, b} = {"O", "o"}

\* the term, compared case-insensitively, is a substring of the text
SubstringIgnoringCase(text, term) ==
  \E i \in 0..(Len(text) - Len(term)) :
    \A k \in DOMAIN term : SameLetter(text[i + k], term[k])

\* the texts of a report that the search looks into
SearchedTexts(report) ==
  (IF "description" \in DOMAIN report THEN {report.description} ELSE {})
    \cup (IF "district" \in DOMAIN report.location
           THEN {report.location.district} ELSE {})
    \cup (IF "formattedAddress" \in DOMAIN report.location
           THEN {report.location.formattedAddress} ELSE {})

\* a report passes the search filter
PassesSearch(report, term) ==
  term = <<>> \/ \E text \in SearchedTexts(report) : SubstringIgnoringCase(text, term)

\* the range a value of the Danger Level select stands for
RangeOf(filter) ==
  IF filter = "1-3" THEN 1..3 ELSE IF filter = "4-7" THEN 4..7
  ELSE IF filter = "8-10" THEN 8..10 ELSE {}

\* a report passes the danger filter
PassesDanger(report, filter) ==
  filter = "all" \/ report.dangerLevel \in RangeOf(filter)

\* `kept` is `all` restricted to the positions in `keep`, in the same order
IsSelection(kept, all, keep) ==
  /\ Len(kept) = Cardinality(keep)
  /\ \E f \in [DOMAIN kept -> keep] :
       /\ \A i, j \in DOMAIN kept : i < j => f[i] < f[j]
       /\ \A i \in DOMAIN kept : kept[i] = all[f[i]]

\* C13: the search filter keeps a report if and only if the search term,
\* compared case-insensitively, is a substring of its description, its
\* location.district or its location.formattedAddress; an empty term keeps
\* every report; the kept reports stay in their original relative order.
C13_SearchFilter ==
  /\ dangerFilter = "all" =>
       IsSelection(filteredReports, listReports,
                   {i \in DOMAIN listReports : PassesSearch(listReports[i], searchTerm)})
  /\ (dangerFilter = "all" /\ searchTerm = <<>>) => filteredReports = listReports
  /\ \A k \in DOMAIN filteredReports : PassesSearch(filteredReports[k], searchTerm)

\* C13 witness: a term in capitals keeps the second of two reports, whose
\* formattedAddress alone holds it in another case, and drops the first
C13_Witness ==
  /\ searchTerm = <<"K", "O">>
  /\ dangerFilter = "all"
  /\ Len(listReports) = 2
  /\ filteredReports = <<listReports[2]>>
  /\ "description" \notin DOMAIN listReports[2]
  /\ listReports[2].location.district = <<"a">>
  /\ listReports[2].location.formattedAddress = <<"a", "k", "O">>

\* C14: the danger filter keeps a report if and only if min <= dangerLevel
\* <= max for the selected range; with 'all' this stage removes no report; a
\* report is in filteredReports exactly when it passes both the search
\* filter and the danger filter.
C14_DangerFilter ==
  /\ IsSelection(filteredReports, listReports,
                 {i \in DOMAIN listReports :
                    /\ PassesSearch(listReports[i], searchTerm)
                    /\ PassesDanger(listReports[i], dangerFilter)})
  /\ searchTerm = <<>> =>
       IsSelection(filteredReports, listReports,
                   {i \in DOMAIN listReports :
                      PassesDanger(listReports[i], dangerFilter)})

\* C14 witness: of two reports that pass the search, the one at the upper
\* edge of the range 1-3 is kept and the one just above it is dropped
C14_Witness ==
  /\ dangerFilter = "1-3"
  /\ searchTerm = <<"o", "k">>
  /\ Len(listReports) = 2
  /\ \A i \in 1..2 : PassesSearch(listReports[i], searchTerm)
  /\ listReports[1].dangerLevel = 4
  /\ listReports[2].dangerLevel = 3
  /\ filteredReports = <<listReports[2]>>

\* C25: in ListPage loading is true in every state in which a fetch of the
\* reports is in flight.
C25_LoadingWhileFetching == listPending # {} => listLoading

-----------------------------------------------------------------------------
(* Claims about the pagination of ListPage, under SpecListPaged            *)

\* the greater of two numbers
Max(a, b) == IF a >= b THEN a ELSE b

\* C22: the page is reset to 1 whenever reports, searchTerm or dangerFilter
\* changes, and in every reachable state the page is an existing one:
\* 1 <= page <= max(1, totalPages).
C22_PageExists ==
  /\ [](1 <= page /\ page <= Max(1, count))
  /\ [][(listReports' # listReports \/ searchTerm' # searchTerm
           \/ dangerFilter' # dangerFilter) => page' = 1]_vars

\* C22 witness: the user has gone to the last of the two pages that the
\* filter 8-10 leaves
C22_Witness ==
  /\ dangerFilter = "8-10"
  /\ Len(filteredReports) = 11
  /\ count = 2
  /\ page = 2

\* the 1-based positions of filteredReports that page p covers
PositionsOfPage(p) ==
  {i \in DOMAIN filteredReports : (p - 1) * 10 <= i - 1 /\ i - 1 < p * 10}

\* C15: the items shown on a page are exactly the contiguous slice
\* [(page-1)*pageSize, page*pageSize) of the filtered reports, at most
\* pageSize (10) items; a page number beyond the page count yields an empty
\* slice.
C15_PageIsSlice ==
  /\ Len(paginatedReports) = Cardinality(PositionsOfPage(page))
  /\ \A k \in DOMAIN paginatedReports :
       /\ (page - 1) * 10 + k \in PositionsOfPage(page)
       /\ paginatedReports[k] = filteredReports[(page - 1) * 10 + k]
  /\ Len(paginatedReports) <= 10
  /\ \A p \in 1..(count + 2) : p > count => PageSlice(p) = <<>>

\* C15 witness: the second page of 21 reports shows the reports 11 to 20
C15_Witness ==
  /\ page = 2
  /\ Len(filteredReports) = 21
  /\ Len(paginatedReports) = 10
  /\ paginatedReports[1] = filteredReports[11]
  /\ paginatedReports[10] = filteredReports[20]

\* the elements of a sequence
Elements(seq) == {seq[i] : i \in DOMAIN seq}

RECURSIVE SumOfPageLengths(_)
SumOfPageLengths(p) ==
  IF p = 0 THEN 0 ELSE Len(PageSlice(p)) + SumOfPageLengths(p - 1)

\* C16: the slices of the pages 1..count are disjoint, their lengths add up
\* to the number of filtered reports, and every page but the last holds
\* exactly pageSize (10) items.
C16_PagesPartition ==
  /\ \A p, q \in 1..count :
       p # q => Elements(PageSlice(p)) \cap Elements(PageSlice(q)) = {}
  /\ SumOfPageLengths(count) = Len(filteredReports)
  /\ \A p \in 1..(count - 1) : Len(PageSlice(p)) = 10

\* C16 witness: 21 filtered reports on three pages, the last of one report
C16_Witness ==
  /\ Len(filteredReports) = 21
  /\ count = 3
  /\ page = 3
  /\ Len(paginatedReports) = 1

\* C17: the page count is ceil(filteredCount / pageSize), the least number
\* of pages of 10 that hold the filtered reports: 0 when there are no
\* filtered reports and at least 1 otherwise.
C17_PageCount ==
  /\ count * 10 >= Len(filteredReports)
  /\ (count - 1) * 10 < Len(filteredReports)
  /\ (Len(filteredReports) = 0) => count = 0
  /\ (Len(filteredReports) > 0) => count >= 1

\* C17 witness: a filter that keeps 11 of the fetched reports makes two pages
C17_Witness ==
  /\ Len(listReports) > 11
  /\ Len(filteredReports) = 11
  /\ count = 2

-----------------------------------------------------------------------------
(* Claims about the fetches of the three views, under SpecViews            *)

\* C18: when a report fetch fails in LeaderboardPage, ListPage or MapPage,
\* the failure is surfaced as a non-empty error message in the state of
\* that view, and the view does not issue the fetch again on its own: a
\* fetch is issued only by a new mount or, in ListPage, by a change of
\* sortBy.
C18_FetchFailureSurfaced ==
  /\ [](lbPc = "failed" => lbError # "")
  /\ [](mapPc = "failed" => mapError # "")
  /\ [](listOutcome = "failed" => listError # "")
  /\ [][(lbPc' = "fetching" /\ (lbPc # "fetching" \/ lbError' # lbError))
          => (lbPc = "unmounted" /\ route = "/leaderboard")]_vars
  /\ [][(mapPc' = "fetching" /\ (mapPc # "fetching" \/ mapError' # mapError))
          => (mapPc = "unmounted" /\ route = "/map")]_vars
  /\ [][listIssued' > listIssued
          => ((listIssued = 0 /\ route = "/list") \/ sortBy' # sortBy)]_vars

\* C18 witness: in ListPage the fetch of the mount and the fetch of a change
\* of sortBy have both failed, the error is set and nothing is awaited
C18_Witness ==
  /\ route = "/list"
  /\ listIssued = 2
  /\ sortBy # "newest"
  /\ listPending = {}
  /\ listOutcome = "failed"
  /\ listError # ""
  /\ ~listLoading

-----------------------------------------------------------------------------
(* Claims about ReportPage, under SpecReport                               *)

\* C6: every report created by ReportPage has a non-empty district; an
\* unresolved district is stored as a sentinel string, never as "".
C6_DistrictNeverEmpty ==
  \A i \in DOMAIN store : store[i].location.district # ""

\* C7: when reverse geocoding fails (the request throws or the reply has no
\* address) the district of the location becomes 'Unknown Location', and a
\* report written while that failure is the last geocoding outcome is stored
\* with district 'Unknown Location'.
C7_GeocodeFailureSentinel ==
  /\ []((route = "/report" /\ lastGeocode = "failed")
          => location.district = "Unknown Location")
  /\ [][(Len(store') > Len(store) /\ lastGeocode = "failed")
          => store'[Len(store')].location.district = "Unknown Location"]_vars

\* C7 witness: a report has been written after a failed geocoding
C7_Witness ==
  /\ lastGeocode = "failed"
  /\ Len(store) = 1
  /\ store[1].location.district = "Unknown Location"

\* C8: after a successful submission the application shows the Success Page.
C8_NavigatesToSuccessPage == Len(store) > 0 => route = "/report/success"

\* C19: every report written to the store by handleSubmit has a latitude and
\* a longitude that are not null and a non-empty encoded image; a
\* handleSubmit that finds the image, lat, lng or the encoded image missing
\* writes nothing and sets an error message.
C19_SubmitNeedsImageAndLocation ==
  /\ [](\A i \in DOMAIN store :
          /\ store[i].location.lat # Null
          /\ store[i].location.lng # Null
          /\ store[i].imageBase64 # "")
  /\ [][(HandleSubmit /\ (\/ image = Null
                          \/ location.lat = Null
                          \/ location.lng = Null
                          \/ imageBase64 = ""))
          => (addDocPending' = addDocPending /\ store' = store /\ error' # "")]_vars

\* C19 witness: a report with coordinates and an encoded image is stored
C19_Witness ==
  /\ Len(store) = 1
  /\ store[1].location.lat = Num(10)
  /\ store[1].location.lng = Num(10)
  /\ store[1].imageBase64 # ""

\* C20: after any sequence of user actions on ReportPage, the dangerLevel of
\* every report written to the store is present and is an integer of 1..10.
C20_DangerLevelInRange ==
  \A i \in DOMAIN store :
    /\ "dangerLevel" \in DOMAIN store[i]
    /\ store[i].dangerLevel \in 1..10

\* C20 witness: a report is stored after the Slider was dragged to its max
C20_Witness ==
  /\ Len(store) = 1
  /\ store[1].dangerLevel = 10

C26_EncodingOfSelectedImage ==
  [][Len(addDocPending') > Len(addDocPending) =>
       /\ image # Null
       /\ addDocPending'[Len(addDocPending')].imageBase64 = DataURL[image.name]]_vars

\* C27: the district and the formattedAddress of a stored report were
\* resolved for the lat/lng of that report.  getDistrictName is called with
\* the coordinates of a device position only, so a stored district or
\* formattedAddress goes with the coordinates of such a position.
C27_DistrictOfStoredCoordinates ==
  \A i \in DOMAIN store :
    (store[i].location.district # "" \/ store[i].location.formattedAddress # "")
      => \E position \in GeoPositions :
           /\ store[i].location.lat = position.latitude
           /\ store[i].location.lng = position.longitude

\* C29: with a selected and encoded image and lat and lng both set to a
\* number, 0 included, and nothing being awaited, submission is enabled.
C29_EveryNumberAccepted ==
  (/\ route = "/report"
   /\ image # Null
   /\ imageBase64 # ""
   /\ location.lat # Null
   /\ location.lng # Null
   /\ ~isLoading)
    => ~SubmitDisabled

\* the band of a marker colour
ColourBand(colour) ==
  IF colour = "#4caf50" THEN "low" ELSE IF colour = "#ff9800" THEN "medium" ELSE "high"

\* the band a helper text names
TextBand(text) ==
  IF text = "Minor - Small crack or shallow pothole" THEN "low"
  ELSE IF text = "Moderate - Noticeable pothole that could damage tires" THEN "medium"
  ELSE "high"

\* the band of a range of the Danger Level select
RangeBand(f) == IF f = "1-3" THEN "low" ELSE IF f = "4-7" THEN "medium" ELSE "high"

\* C30: for every danger level of 1..10, the levels the Slider of ReportPage
\* gives, the quote category, the marker colour, the helper text of
\* ReportPage and the range of ListPage's danger filter put the level in the
\* same band.
C30_BandsAgree ==
  route = "/report" =>
  \A level \in SliderMin..SliderMax :
    /\ ColourBand(dangerLevelToColor(level)) = QuoteCategory(level)
    /\ TextBand(HelperText(level)) = QuoteCategory(level)
    /\ \A f \in RangesOfLevel(level) : RangeBand(f) = QuoteCategory(level)
    /\ RangesOfLevel(level) # {}

-----------------------------------------------------------------------------
(* Claims about the three views, under SpecViewsFair                       *)

\* C23: in LeaderboardPage, ListPage and MapPage loading is false once a
\* fetch has completed, with data, with an empty result or with a failure,
\* and no other fetch is in flight; and every fetch that is started leads to
\* loading = false, unless the view is left before the fetch settles.
C23_LoadingEnds ==
  /\ [](lbPc \in {"done", "failed"} => ~lbLoading)
  /\ [](mapPc \in {"done", "failed"} => ~mapLoading)
  /\ []((listOutcome # "none" /\ listPending = {}) => ~listLoading)
  /\ (lbPc = "fetching") ~> (~lbLoading \/ lbPc = "unmounted")
  /\ (mapPc = "fetching") ~> (~mapLoading \/ mapPc = "unmounted")
  /\ (listPending # {}) ~> ((listPending = {} /\ ~listLoading) \/ listIssued = 0)

\* C23 witness: in ListPage the fetch of the mount and the fetch of a change
\* of sortBy have both settled, the last one with data, and loading is false
C23_Witness ==
  /\ route = "/list"
  /\ listIssued = 2
  /\ listPending = {}
  /\ listOutcome = "ok"
  /\ Len(listReports) = 2
  /\ ~listLoading

-----------------------------------------------------------------------------
(* Claims about the application, under SpecApp                             *)

\* C24: after a link /map?report=<id> is followed and the fetch of MapPage
\* has completed, selectedReport is the report with that id.
C24_LinkSelectsReport ==
  [][(query # Null /\ mapPc = "fetching" /\ mapPc' = "done")
       => (selectedReport' # Null /\ selectedReport'.id = query.report)]_vars

\* C28: no getDocs of the three views and no addDoc is issued before the
\* anonymous sign-in of App has produced an authenticated user.
C28_SignedInBeforeStoreAccess ==
  [][(\/ lbPc # "fetching" /\ lbPc' = "fetching"
      \/ mapPc # "fetching" /\ mapPc' = "fetching"
      \/ listIssued' > listIssued
      \/ Len(addDocPending') > Len(addDocPending))
       => authPc = "signedIn"]_vars

====
